---- MODULE Spec2Model ----
(***************************************************************************)
(* Elevator simulation (src/elevator_simulation.js): the Elevator class    *)
(* (request queues, SCAN next-stop selection, the runCycle state machine)  *)
(* and the ElevatorController (hall-call assignment, rounds of runCycle).  *)
(*                                                                         *)
(* Granularity: JavaScript runs one task at a time.  runCycle suspends     *)
(* only at its timer awaits (travel, door operation, dwell), so one action *)
(* is the code that runs from one timer to the next; request submissions   *)
(* (tasks of other actors) interleave between these actions.               *)
(***************************************************************************)
EXTENDS Integers, Sequences, FiniteSets, TLC

VARIABLES
    minFloor,     \* ElevatorController.minFloor
    maxFloor,     \* ElevatorController.maxFloor
    elevators,    \* ElevatorController.elevators: id -> Elevator object
    pc,           \* per elevator: where its runCycle call is suspended
    destination,  \* per elevator: runCycle's local `destination`
    results,      \* per elevator: the value its runCycle promise resolved to
    cycleStart,   \* history: per elevator, the elevator as its suspended runCycle call found it
    lastCall,     \* the call performed by the latest step, with its return value
    reqCount,     \* number of requests submitted so far (bounded)
    script,       \* demoElevatorSystem: next scripted request (0: not the demo)
    cycle,        \* demoElevatorSystem: loop counter `cycle`
    visited       \* demo only: per elevator, the floors it stopped at, in order

coreVars == <<minFloor, maxFloor, elevators, pc, destination, results, cycleStart, lastCall>>
driverVars == <<reqCount, script, cycle, visited>>
vars == <<minFloor, maxFloor, elevators, pc, destination, results, cycleStart, lastCall,
          reqCount,
          script, cycle, visited>>

----------------------------------------------------------------------------
\* Bounds of the model
MaxBottom == 2      \* Init draws minFloor from 1..MaxBottom
MaxTop == 4         \* Init sets maxFloor to MaxTop
MaxRequests == 2    \* at most this many request submissions in a behaviour

\* Program constants
UP == 1
DOWN == -1
IDLE == 0
OPEN == "OPEN"
CLOSED == "CLOSED"
OPENING == "OPENING"
CLOSING == "CLOSING"
NULL == -1000       \* JavaScript null (no destination, no elevator)
NumElevators == 2   \* numElevators
DemoMinFloor == 1
DemoMaxFloor == 10
DemoCycles == 10

Cars == 1..NumElevators
DoorStates == {OPEN, CLOSED, OPENING, CLOSING}

----------------------------------------------------------------------------
\* Helpers standing for JavaScript built-ins

Abs(x) == IF x < 0 THEN -x ELSE x

Range(s) == {s[i] : i \in 1..Len(s)}

\* Array.prototype.includes
Includes(s, x) == \E i \in 1..Len(s) : s[i] = x

\* The first element taken for the least, as if the array were sorted
MathMin_First(s) == s[1]

\* Math.min(...s) and Math.max(...s) of a non-empty array
MathMin(s) == CHOOSE x \in Range(s) : \A y \in Range(s) : x <= y
MathMax(s) == CHOOSE x \in Range(s) : \A y \in Range(s) : x >= y

\* Array.prototype.sort((a, b) => a - b), as an insertion sort
RECURSIVE InsertAsc(_, _)
InsertAsc(s, x) ==
    IF s = <<>> THEN <<x>>
    ELSE IF x < Head(s) THEN <<x>> \o s
    ELSE <<Head(s)>> \o InsertAsc(Tail(s), x)

RECURSIVE SortAsc(_)
SortAsc(s) == IF s = <<>> THEN <<>> ELSE InsertAsc(SortAsc(Tail(s)), Head(s))

\* Array.prototype.indexOf followed by splice(index, 1): drop the first x
RECURSIVE RemoveFirst(_, _)
RemoveFirst(s, x) ==
    IF s = <<>> THEN <<>>
    ELSE IF Head(s) = x THEN Tail(s)
    ELSE <<Head(s)>> \o RemoveFirst(Tail(s), x)

----------------------------------------------------------------------------
\* class Elevator

\* new Elevator(elevatorId, minFloor, maxFloor)
NewElevator(id, lo, hi) ==
    [ elevatorId    |-> id,
      minFloor      |-> lo,
      maxFloor      |-> hi,
      currentFloor  |-> 1,
      direction     |-> IDLE,
      doorState     |-> CLOSED,
      floorRequests |-> <<>>,
      hallRequests  |-> <<>>,
      isMoving      |-> FALSE ]

\* new FloorRequest(floor, direction); the timestamp is never read
FloorRequest(floor, direction) == [floor |-> floor, direction |-> direction]

\* _isValidFloor accepting one floor above the top
IsValidFloor_OneAboveTop(e, floor) == floor >= e.minFloor /\ floor <= e.maxFloor + 1

\* Elevator._isValidFloor(floor)
IsValidFloor(e, floor) == floor >= e.minFloor /\ floor <= e.maxFloor

\* requestFloor without its includes test: a floor already queued is queued again
RequestFloor_NoIncludesCheck(e, floor) ==
    IF ~IsValidFloor(e, floor) THEN [elevator |-> e, ret |-> FALSE]
    ELSE IF floor = e.currentFloor /\ e.doorState = CLOSED
         THEN [elevator |-> e, ret |-> TRUE]
    ELSE [elevator |->
            [e EXCEPT !.floorRequests = SortAsc(Append(e.floorRequests, floor))],
          ret |-> TRUE]

\* Elevator.requestFloor(floor): the elevator afterwards and the return value
RequestFloor(e, floor) ==
    IF ~IsValidFloor(e, floor) THEN [elevator |-> e, ret |-> FALSE]
    ELSE IF floor = e.currentFloor /\ e.doorState = CLOSED
         THEN [elevator |-> e, ret |-> TRUE]
    ELSE IF ~Includes(e.floorRequests, floor)
         THEN [elevator |->
                 [e EXCEPT !.floorRequests = SortAsc(Append(e.floorRequests, floor))],
               ret |-> TRUE]
    ELSE [elevator |-> e, ret |-> TRUE]

\* callElevator without its direction test: Up at the top floor and Down at the
\* bottom floor are queued
CallElevator_NoDirectionCheck(e, floor, direction) ==
    IF ~IsValidFloor(e, floor) THEN [elevator |-> e, ret |-> FALSE]
    ELSE IF ~(\E i \in 1..Len(e.hallRequests) :
                 e.hallRequests[i].floor = floor /\ e.hallRequests[i].direction = direction)
         THEN [elevator |->
                 [e EXCEPT !.hallRequests = Append(e.hallRequests, FloorRequest(floor, direction))],
               ret |-> TRUE]
    ELSE [elevator |-> e, ret |-> TRUE]

\* Elevator.callElevator(floor, direction): the elevator afterwards and the return value
CallElevator(e, floor, direction) ==
    IF ~IsValidFloor(e, floor) THEN [elevator |-> e, ret |-> FALSE]
    ELSE IF \/ (floor = e.maxFloor /\ direction = UP)
            \/ (floor = e.minFloor /\ direction = DOWN)
         THEN [elevator |-> e, ret |-> FALSE]
    ELSE IF ~(\E i \in 1..Len(e.hallRequests) :
                 e.hallRequests[i].floor = floor /\ e.hallRequests[i].direction = direction)
         THEN [elevator |->
                 [e EXCEPT !.hallRequests = Append(e.hallRequests, FloorRequest(floor, direction))],
               ret |-> TRUE]
    ELSE [elevator |-> e, ret |-> TRUE]

\* The hall-request test without its two clauses for requests ahead of the
\* elevator
HallEligible_IgnoresAhead(e, request) ==
    \/ e.direction = IDLE
    \/ request.direction = e.direction
    \/ request.floor = e.currentFloor

\* The hall-request test of _getNextDestination's loop
HallEligible(e, request) ==
    \/ e.direction = IDLE
    \/ request.direction = e.direction
    \/ request.floor = e.currentFloor
    \/ (e.direction = UP /\ request.floor > e.currentFloor)
    \/ (e.direction = DOWN /\ request.floor < e.currentFloor)

\* allFloors.add(request.floor) for each eligible hall request, in array order
\* (a Set keeps insertion order and ignores a value it already holds)
RECURSIVE AddHallFloors(_, _, _)
AddHallFloors(e, floors, requests) ==
    IF requests = <<>> THEN floors
    ELSE LET request == Head(requests)
             added == IF HallEligible(e, request) /\ ~Includes(floors, request.floor)
                      THEN Append(floors, request.floor)
                      ELSE floors
         IN  AddHallFloors(e, added, Tail(requests))

\* Array.from(allFloors)
FloorsArray(e) == AddHallFloors(e, e.floorRequests, e.hallRequests)

\* floorsArray.reduce((closest, current) => |current - cur| < |closest - cur| ? current : closest)
RECURSIVE ReduceClosest(_, _, _)
ReduceClosest(e, closest, rest) ==
    IF rest = <<>> THEN closest
    ELSE LET current == Head(rest)
         IN  ReduceClosest(e,
                 IF Abs(current - e.currentFloor) < Abs(closest - e.currentFloor)
                 THEN current ELSE closest,
                 Tail(rest))

\* _getNextDestination taking the farthest floor ahead instead of the nearest
GetNextDestination_Farthest(e) ==
    LET floorsArray == FloorsArray(e)
        upFloors    == SelectSeq(floorsArray, LAMBDA f : f > e.currentFloor)
        downFloors  == SelectSeq(floorsArray, LAMBDA f : f < e.currentFloor)
    IN  IF Len(floorsArray) = 0 THEN NULL
        ELSE IF (e.direction = UP \/ e.direction = IDLE) /\ Len(upFloors) > 0
             THEN MathMax(upFloors)
        ELSE IF (e.direction = DOWN \/ e.direction = IDLE) /\ Len(downFloors) > 0
             THEN MathMin(downFloors)
        ELSE IF e.direction # IDLE /\ Len(floorsArray) > 0
             THEN ReduceClosest(e, Head(floorsArray), Tail(floorsArray))
        ELSE NULL

\* Elevator._getNextDestination(): the next floor, or NULL
GetNextDestination(e) ==
    LET floorsArray == FloorsArray(e)
        upFloors    == SelectSeq(floorsArray, LAMBDA f : f > e.currentFloor)
        downFloors  == SelectSeq(floorsArray, LAMBDA f : f < e.currentFloor)
    IN  IF Len(floorsArray) = 0 THEN NULL
        ELSE IF (e.direction = UP \/ e.direction = IDLE) /\ Len(upFloors) > 0
             THEN MathMin(upFloors)
        ELSE IF (e.direction = DOWN \/ e.direction = IDLE) /\ Len(downFloors) > 0
             THEN MathMax(downFloors)
        ELSE IF e.direction # IDLE /\ Len(floorsArray) > 0
             THEN ReduceClosest(e, Head(floorsArray), Tail(floorsArray))
        ELSE NULL

\* Elevator._updateDirection(destination)
UpdateDirection(e, dest) ==
    IF dest > e.currentFloor THEN [e EXCEPT !.direction = UP]
    ELSE IF dest < e.currentFloor THEN [e EXCEPT !.direction = DOWN]
    ELSE [e EXCEPT !.direction = IDLE]

\* _removeCompletedRequests leaving the cabin request in place
RemoveCompletedRequests_KeepsCabin(e, floor) ==
    [e EXCEPT
       !.hallRequests  = SelectSeq(e.hallRequests,
                            LAMBDA req : ~(req.floor = floor /\
                                           (req.direction = e.direction \/ e.direction = IDLE)))]

\* Elevator._removeCompletedRequests(floor)
RemoveCompletedRequests(e, floor) ==
    [e EXCEPT
       !.floorRequests = RemoveFirst(e.floorRequests, floor),
       !.hallRequests  = SelectSeq(e.hallRequests,
                            LAMBDA req : ~(req.floor = floor /\
                                           (req.direction = e.direction \/ e.direction = IDLE)))]

\* Elevator._moveToFloor(targetFloor) up to its await: nothing when already there,
\* else the direction is updated and isMoving set
MoveToFloorStart(e, targetFloor) ==
    IF targetFloor = e.currentFloor THEN e
    ELSE [UpdateDirection(e, targetFloor) EXCEPT !.isMoving = TRUE]

\* _moveToFloor forgetting to clear isMoving on arrival
MoveToFloorEnd_StillMoving(e, targetFloor) ==
    [e EXCEPT !.currentFloor = targetFloor]

\* Elevator._moveToFloor(targetFloor) after its await
MoveToFloorEnd(e, targetFloor) ==
    [e EXCEPT !.currentFloor = targetFloor, !.isMoving = FALSE]

\* _openDoors setting the doors Open at once, without the Opening stage
OpenDoorsStart_SkipsOpening(e) == [e EXCEPT !.doorState = OPEN]

\* Elevator._openDoors() up to its await, and after it
OpenDoorsStart(e) == [e EXCEPT !.doorState = OPENING]
OpenDoorsEnd(e) == [e EXCEPT !.doorState = OPEN]

\* Elevator._closeDoors() up to its await, and after it
CloseDoorsStart(e) == [e EXCEPT !.doorState = CLOSING]
CloseDoorsEnd(e) == [e EXCEPT !.doorState = CLOSED]

\* Elevator.runCycle() from its call to its first timer await: no destination
\* resolves the call with false at once; a destination on the current floor goes
\* straight on to _openDoors; any other starts the travel.
RunCycleStart(e) ==
    LET dest == GetNextDestination(e)
    IN  IF dest = NULL
        THEN [elevator |-> [e EXCEPT !.direction = IDLE],
              pc |-> "done", destination |-> NULL, result |-> FALSE]
        ELSE IF dest = e.currentFloor
        THEN [elevator |-> OpenDoorsStart(MoveToFloorStart(e, dest)),
              pc |-> "opening", destination |-> dest, result |-> FALSE]
        ELSE [elevator |-> MoveToFloorStart(e, dest),
              pc |-> "moving", destination |-> dest, result |-> FALSE]

----------------------------------------------------------------------------
\* class ElevatorController

\* The score callElevator's loop gives one elevator
Score(e, floor, direction) ==
    Abs(e.currentFloor - floor)
      + (IF e.direction = direction THEN -2 ELSE 0)
      + (IF e.isMoving \/ Len(e.floorRequests) > 0 \/ Len(e.hallRequests) > 0 THEN 1 ELSE 0)

\* callElevator's loop comparing with <=: the last elevator wins a tie
RECURSIVE BestElevator_LastOnTie(_, _, _, _, _)
BestElevator_LastOnTie(els, floor, direction, i, best) ==
    IF i > NumElevators THEN best
    ELSE LET score == Score(els[i], floor, direction)
         IN  IF best = NULL \/ score <= Score(els[best], floor, direction)
             THEN BestElevator_LastOnTie(els, floor, direction, i + 1, i)
             ELSE BestElevator_LastOnTie(els, floor, direction, i + 1, best)

\* callElevator's loop from elevator i on, with bestElevator/bestScore so far
\* (bestElevator NULL stands for bestScore Infinity)
RECURSIVE BestElevator(_, _, _, _, _)
BestElevator(els, floor, direction, i, best) ==
    IF i > NumElevators THEN best
    ELSE LET score == Score(els[i], floor, direction)
         IN  IF best = NULL \/ score < Score(els[best], floor, direction)
             THEN BestElevator(els, floor, direction, i + 1, i)
             ELSE BestElevator(els, floor, direction, i + 1, best)

\* ElevatorController.callElevator(floor, direction): the chosen elevator (NULL if
\* none), the elevators afterwards and the return value
ControllerCallElevator(els, lo, hi, floor, direction) ==
    IF floor < lo \/ floor > hi
    THEN [car |-> NULL, elevators |-> els, ret |-> FALSE]
    ELSE LET best == BestElevator(els, floor, direction, 1, NULL)
         IN  IF best # NULL
             THEN LET r == CallElevator(els[best], floor, direction)
                  IN  [car |-> best,
                       elevators |-> [els EXCEPT ![best] = r.elevator],
                       ret |-> r.ret]
             ELSE [car |-> NULL, elevators |-> els, ret |-> FALSE]

----------------------------------------------------------------------------
\* State machine

\* lastCall: what the latest step called and what it returned; round tells
\* whether the step also resolved a round's Promise.all, and with what result
Call(op, car, floor, direction, ret) ==
    [op |-> op, car |-> car, floor |-> floor, direction |-> direction, ret |-> ret,
     round |-> "none"]

\* results.some(result => result)
AnyWork(res) == \E c \in Cars : res[c]

\* The call record of a step that ends a round whose runCycle calls returned res
RoundOver(call, res) ==
    [call EXCEPT !.round = IF AnyWork(res) THEN "true" ELSE "false"]

Idle == \A c \in Cars : pc[c] = "idle"

\* A runCycle call of elevator c is suspended at one of its timer awaits
InCycle(c) == pc[c] \in {"moving", "opening", "open", "closing"}

\* cycleStart after a step: while a runCycle call of an elevator is suspended,
\* the elevator as that call found it; otherwise the elevator itself
TrackCycleStart ==
    [c \in Cars |->
        IF pc'[c] \in {"moving", "opening", "open", "closing"}
        THEN (IF InCycle(c) THEN cycleStart[c] ELSE elevators[c])
        ELSE elevators'[c]]

\* new ElevatorController(NumElevators, lo, hi)
NewController(lo, hi) ==
    /\ minFloor = lo
    /\ maxFloor = hi
    /\ elevators = [c \in Cars |-> NewElevator(c, lo, hi)]
    /\ pc = [c \in Cars |-> "idle"]
    /\ destination = [c \in Cars |-> NULL]
    /\ results = [c \in Cars |-> FALSE]
    /\ cycleStart = [c \in Cars |-> NewElevator(c, lo, hi)]
    /\ lastCall = Call("new", NULL, NULL, IDLE, TRUE)

\* Floors a caller may pass: the building's and one beyond each end
FloorInputs == (minFloor - 1)..(maxFloor + 1)

\* A passenger of elevator c presses a floor button: elevator.requestFloor(floor)
SubmitRequestFloor(c, floor) ==
    LET r == RequestFloor(elevators[c], floor)
    IN  /\ elevators' = [elevators EXCEPT ![c] = r.elevator]
        /\ lastCall' = Call("requestFloor", c, floor, IDLE, r.ret)
        /\ UNCHANGED <<minFloor, maxFloor, pc, destination, results>>
        /\ cycleStart' = TrackCycleStart

\* A hall call made on elevator c itself: elevator.callElevator(floor, direction)
SubmitCallElevator(c, floor, direction) ==
    LET r == CallElevator(elevators[c], floor, direction)
    IN  /\ elevators' = [elevators EXCEPT ![c] = r.elevator]
        /\ lastCall' = Call("callElevator", c, floor, direction, r.ret)
        /\ UNCHANGED <<minFloor, maxFloor, pc, destination, results>>
        /\ cycleStart' = TrackCycleStart

\* A hall call made on the controller: controller.callElevator(floor, direction)
SubmitControllerCall(floor, direction) ==
    LET r == ControllerCallElevator(elevators, minFloor, maxFloor, floor, direction)
    IN  /\ elevators' = r.elevators
        /\ lastCall' = Call("controller.callElevator", r.car, floor, direction, r.ret)
        /\ UNCHANGED <<minFloor, maxFloor, pc, destination, results>>
        /\ cycleStart' = TrackCycleStart

\* One round begins: controller.elevators.map(elevator => elevator.runCycle()),
\* every call running to its first timer await or to its return.  When every
\* call has returned (no elevator had a destination) Promise.all resolves in
\* the same task and the round is over.
StepAll ==
    /\ Idle
    /\ LET started == [c \in Cars |-> RunCycleStart(elevators[c])]
           allDone == \A c \in Cars : started[c].pc = "done"
           res     == [c \in Cars |-> started[c].result]
       IN  /\ elevators' = [c \in Cars |-> started[c].elevator]
           /\ pc' = [c \in Cars |-> IF allDone THEN "idle" ELSE started[c].pc]
           /\ destination' = [c \in Cars |-> started[c].destination]
           /\ results' = res
           /\ lastCall' = IF allDone
                          THEN RoundOver(Call("runCycle", NULL, NULL, IDLE, FALSE), res)
                          ELSE Call("runCycle", NULL, NULL, IDLE, TRUE)
    /\ UNCHANGED <<minFloor, maxFloor>>
    /\ cycleStart' = TrackCycleStart

\* The travel timer of elevator c fires: _moveToFloor finishes, _openDoors begins
TravelDone(c) ==
    /\ pc[c] = "moving"
    /\ elevators' = [elevators EXCEPT
                       ![c] = OpenDoorsStart(MoveToFloorEnd(elevators[c], destination[c]))]
    /\ pc' = [pc EXCEPT ![c] = "opening"]
    /\ lastCall' = Call("_moveToFloor", c, destination[c], IDLE, TRUE)
    /\ UNCHANGED <<minFloor, maxFloor, destination, results>>
    /\ cycleStart' = TrackCycleStart

\* The door timer fires while opening: _openDoors finishes, the dwell begins
DoorsOpened(c) ==
    /\ pc[c] = "opening"
    /\ elevators' = [elevators EXCEPT ![c] = OpenDoorsEnd(elevators[c])]
    /\ pc' = [pc EXCEPT ![c] = "open"]
    /\ lastCall' = Call("_openDoors", c, destination[c], IDLE, TRUE)
    /\ UNCHANGED <<minFloor, maxFloor, destination, results>>
    /\ cycleStart' = TrackCycleStart

\* The dwell timer fires: requests are retired, _closeDoors begins
DwellDone(c) ==
    /\ pc[c] = "open"
    /\ elevators' = [elevators EXCEPT
                       ![c] = CloseDoorsStart(RemoveCompletedRequests(elevators[c], destination[c]))]
    /\ pc' = [pc EXCEPT ![c] = "closing"]
    /\ lastCall' = Call("_removeCompletedRequests", c, destination[c], IDLE, TRUE)
    /\ UNCHANGED <<minFloor, maxFloor, destination, results>>
    /\ cycleStart' = TrackCycleStart

\* The door timer fires while closing: _closeDoors finishes, runCycle returns
\* true.  When it was the last call of the round to return, Promise.all
\* resolves in the same task and the round is over.
DoorsClosed(c) ==
    /\ pc[c] = "closing"
    /\ LET last == \A d \in Cars \ {c} : pc[d] = "done"
           res  == [results EXCEPT ![c] = TRUE]
           call == Call("_closeDoors", c, destination[c], IDLE, TRUE)
       IN  /\ elevators' = [elevators EXCEPT ![c] = CloseDoorsEnd(elevators[c])]
           /\ pc' = IF last THEN [d \in Cars |-> "idle"] ELSE [pc EXCEPT ![c] = "done"]
           /\ destination' = IF last THEN [d \in Cars |-> NULL] ELSE destination
           /\ results' = res
           /\ lastCall' = IF last THEN RoundOver(call, res) ELSE call
    /\ UNCHANGED <<minFloor, maxFloor>>
    /\ cycleStart' = TrackCycleStart

----------------------------------------------------------------------------
\* The system under any callers: requests of all kinds at any time (at most
\* MaxRequests of them), rounds one after the other

Init ==
    /\ \E lo \in 1..MaxBottom : NewController(lo, MaxTop)
    /\ reqCount = 0
    /\ script = 0
    /\ cycle = 0
    /\ visited = [c \in Cars |-> <<>>]

\* A request counts against MaxRequests; the demo's variables stay put
Submitting ==
    /\ reqCount < MaxRequests
    /\ reqCount' = reqCount + 1
    /\ UNCHANGED <<script, cycle, visited>>

Next ==
    \/ \E c \in Cars, floor \in FloorInputs :
           Submitting /\ SubmitRequestFloor(c, floor)
    \/ \E c \in Cars, floor \in FloorInputs, direction \in {UP, DOWN} :
           Submitting /\ SubmitCallElevator(c, floor, direction)
    \/ \E floor \in FloorInputs, direction \in {UP, DOWN} :
           Submitting /\ SubmitControllerCall(floor, direction)
    \/ StepAll /\ UNCHANGED driverVars
    \/ \E c \in Cars : TravelDone(c) /\ UNCHANGED driverVars
    \/ \E c \in Cars : DoorsOpened(c) /\ UNCHANGED driverVars
    \/ \E c \in Cars : DwellDone(c) /\ UNCHANGED driverVars
    \/ \E c \in Cars : DoorsClosed(c) /\ UNCHANGED driverVars

Spec == Init /\ [][Next]_vars

----------------------------------------------------------------------------
\* demoElevatorSystem(): two elevators, floors 1-10, four scripted requests,
\* then at most DemoCycles rounds, left early by the round that reports no work

DemoScript ==
    << Call("controller.callElevator", NULL, 5, UP, TRUE),
       Call("controller.callElevator", NULL, 8, DOWN, TRUE),
       Call("requestFloor", 1, 7, IDLE, TRUE),
       Call("requestFloor", 1, 3, IDLE, TRUE) >>

DemoLoop == Len(DemoScript) + 1     \* script: in the loop of rounds
DemoBroken == Len(DemoScript) + 2   \* script: the loop was left by `break`

DemoInit ==
    /\ NewController(DemoMinFloor, DemoMaxFloor)
    /\ reqCount = 0
    /\ script = 1
    /\ cycle = 0
    /\ visited = [c \in Cars |-> <<>>]

\* The next scripted request
DemoRequest ==
    /\ script \in 1..Len(DemoScript)
    /\ LET call == DemoScript[script]
       IN  IF call.op = "requestFloor"
           THEN SubmitRequestFloor(call.car, call.floor)
           ELSE SubmitControllerCall(call.floor, call.direction)
    /\ script' = script + 1
    /\ UNCHANGED <<reqCount, cycle, visited>>

\* The loop's bookkeeping after a step: the round that reports no work leaves
\* the loop by `break`, any other finished round counts one cycle
DemoLoopStep ==
    /\ cycle' = IF lastCall'.round = "true" THEN cycle + 1 ELSE cycle
    /\ script' = IF lastCall'.round = "false" THEN DemoBroken ELSE script
    /\ UNCHANGED reqCount

\* The loop body's map of runCycle; an elevator already at its destination
\* stops there at once
DemoStepAll ==
    /\ script = DemoLoop
    /\ cycle < DemoCycles
    /\ StepAll
    /\ visited' = [c \in Cars |->
                     IF pc'[c] = "opening"
                     THEN Append(visited[c], elevators[c].currentFloor)
                     ELSE visited[c]]
    /\ DemoLoopStep

\* An elevator arrives: one more stop
DemoTravelDone(c) ==
    /\ TravelDone(c)
    /\ visited' = [visited EXCEPT ![c] = Append(@, destination[c])]
    /\ UNCHANGED <<reqCount, script, cycle>>

\* An elevator's doors are closed again, which may end the round
DemoDoorsClosed(c) ==
    /\ DoorsClosed(c)
    /\ DemoLoopStep
    /\ UNCHANGED visited

DemoNext ==
    \/ DemoRequest
    \/ DemoStepAll
    \/ \E c \in Cars : DemoTravelDone(c)
    \/ \E c \in Cars : DoorsOpened(c) /\ UNCHANGED driverVars
    \/ \E c \in Cars : DwellDone(c) /\ UNCHANGED driverVars
    \/ \E c \in Cars : DemoDoorsClosed(c)

DemoSpec == DemoInit /\ [][DemoNext]_vars

----------------------------------------------------------------------------
\* Scheduling: a timer that was set fires, and the driving loop calls the next
\* round when the last one is over.  Requests are up to their callers.

TimerFires(c) ==
    (TravelDone(c) \/ DoorsOpened(c) \/ DwellDone(c) \/ DoorsClosed(c))
        /\ UNCHANGED driverVars

FairSpec ==
    /\ Spec
    /\ WF_vars(StepAll /\ UNCHANGED driverVars)
    /\ \A c \in Cars : WF_vars(TimerFires(c))

----------------------------------------------------------------------------
\* Properties

PendingCabin(c) == Range(elevators[c].floorRequests)
PendingHall(c) == Range(elevators[c].hallRequests)
NoPending(c) == PendingCabin(c) = {} /\ PendingHall(c) = {}

\* A round has just returned false / true
RoundReturnedFalse == lastCall.round = "false"
RoundReturnedTrue == lastCall.round = "true"

\* C1 (termination): requests are finitely many (at most MaxRequests), so if
\* repeated rounds always came to a round that returns false once the requests
\* have stopped, rounds returning false would recur for ever.
C1_Termination == []<>RoundReturnedFalse

\* C2: whenever a round returns false, no elevator has a pending cabin or hall
\* request left.
C2_FalseRoundLeavesNothingPending ==
    RoundReturnedFalse => \A c \in Cars : NoPending(c)

\* Floor f counts as retired on elevator e: no pending cabin request for f and
\* no pending hall request at f in e's direction
Retired(e, f) ==
    /\ ~Includes(e.floorRequests, f)
    /\ ~(\E i \in 1..Len(e.hallRequests) :
            e.hallRequests[i].floor = f /\ e.hallRequests[i].direction = e.direction)

RequestOps == {"requestFloor", "callElevator", "controller.callElevator"}

\* The latest step was an accepted or rejected request for floor f on elevator c
SubmittedFor(call, c, f) == call.op \in RequestOps /\ call.car = c /\ call.floor = f

\* C3 as stated: when a cycle that served floor f has completed, f is not
\* among the elevator's pending cabin requests and no hall request at f in
\* the elevator's direction is pending.
C3_RetiredWhenCycleCompletes ==
    lastCall.op = "_closeDoors" => Retired(elevators[lastCall.car], lastCall.floor)

\* C3 amended: the retirement step leaves floor f retired, and f stays retired
\* until the cycle completes unless a request for f is submitted to the
\* elevator while its doors are closing.
C3_RetiredUnlessResubmitted ==
    [][\A c \in Cars :
          /\ (pc[c] = "open" /\ pc'[c] = "closing")
                => Retired(elevators'[c], destination[c])
          /\ (/\ pc[c] = "closing"
              /\ Retired(elevators[c], destination[c])
              /\ ~SubmittedFor(lastCall', c, destination[c]))
                => Retired(elevators'[c], destination[c])]_vars

\* C3 witness: a cycle has completed on an elevator that travelled (its
\* direction is set), its floor is retired and another request is still pending.
C3_Witness ==
    /\ lastCall.op = "_closeDoors"
    /\ elevators[lastCall.car].direction # IDLE
    /\ Retired(elevators[lastCall.car], lastCall.floor)
    /\ ~NoPending(lastCall.car)

IsPrefix(s, t) == Len(s) <= Len(t) /\ \A i \in 1..Len(s) : s[i] = t[i]

\* C4 as stated: in the demo, elevator 1 stops at floor 5 first, then 7, then 3.
C4_DemoVisitOrder_5_7_3 == IsPrefix(visited[1], <<5, 7, 3>>)

\* C4 amended: in the demo, elevator 1 stops at floor 3 first, then 5, then 7,
\* one stop per round, and nowhere else.
C4_DemoVisitOrder_3_5_7 ==
    /\ IsPrefix(visited[1], <<3, 5, 7>>)
    /\ cycle >= 3 => visited[1] = <<3, 5, 7>>

\* C4 witness: elevator 1 has made its three stops.
C4_Witness == visited[1] = <<3, 5, 7>> /\ NoPending(1)

\* The score as C5 words it
C5_Score(e, floor, direction) ==
    LET distance == IF e.currentFloor >= floor
                    THEN e.currentFloor - floor ELSE floor - e.currentFloor
        busy     == e.isMoving \/ e.floorRequests # <<>> \/ e.hallRequests # <<>>
    IN  distance - (IF e.direction = direction THEN 2 ELSE 0) + (IF busy THEN 1 ELSE 0)

\* C5: a hall call made on the controller with an in-range floor is forwarded
\* to the elevator of minimal score, the earliest of those with that score;
\* that elevator's callElevator decides the result and no other elevator changes.
C5_MinimalScoreEarliestCar ==
    [][lastCall'.op = "controller.callElevator"
         /\ lastCall'.floor >= minFloor /\ lastCall'.floor <= maxFloor
       => LET c == lastCall'.car
              f == lastCall'.floor
              d == lastCall'.direction
          IN  /\ c \in Cars
              /\ \A o \in Cars :
                    /\ C5_Score(elevators[c], f, d) <= C5_Score(elevators[o], f, d)
                    /\ o < c => C5_Score(elevators[o], f, d) > C5_Score(elevators[c], f, d)
              /\ elevators'[c] = CallElevator(elevators[c], f, d).elevator
              /\ lastCall'.ret = CallElevator(elevators[c], f, d).ret
              /\ \A o \in Cars \ {c} : elevators'[o] = elevators[o]]_vars

\* C5 witness: with both elevators at rest on floor 1, elevator 1 holds an Up
\* hall call and the Down hall call that followed has just gone to elevator 2.
C5_Witness ==
    /\ lastCall.op = "controller.callElevator"
    /\ lastCall.direction = DOWN
    /\ lastCall.car = 2
    /\ lastCall.ret
    /\ \A c \in Cars : elevators[c].currentFloor = 1 /\ elevators[c].direction = IDLE
    /\ Len(elevators[1].hallRequests) = 1
    /\ elevators[1].hallRequests[1].direction = UP
    /\ elevators[2].hallRequests = <<FloorRequest(lastCall.floor, DOWN)>>

\* C5 in the demo: the call (5, Up) goes to elevator 1 and the call (8, Down)
\* that follows to elevator 2.
C5_DemoAssignment ==
    /\ (script >= 2 /\ ~Includes(visited[1], 5))
          => Includes(elevators[1].hallRequests, FloorRequest(5, UP))
    /\ script >= 3 => Includes(elevators[2].hallRequests, FloorRequest(8, DOWN))
    /\ ~Includes(elevators[2].hallRequests, FloorRequest(5, UP))
    /\ ~Includes(elevators[1].hallRequests, FloorRequest(8, DOWN))

\* C6: a rejected request changes nothing, and these requests are rejected:
\* any with a floor outside [minFloor, maxFloor], and a hall call Up at
\* maxFloor or Down at minFloor, on an elevator or on the controller.
C6_RejectedRequestsChangeNothing ==
    [][LET call == lastCall'
       IN  call.op \in RequestOps =>
             /\ call.ret = FALSE =>
                   /\ elevators' = elevators
                   /\ UNCHANGED <<minFloor, maxFloor, pc, destination, results>>
             /\ (call.floor < minFloor \/ call.floor > maxFloor) => call.ret = FALSE
             /\ (/\ call.op # "requestFloor"
                 /\ \/ (call.floor = maxFloor /\ call.direction = UP)
                    \/ (call.floor = minFloor /\ call.direction = DOWN))
                   => call.ret = FALSE]_vars

\* C6 witness: a request was just rejected while requests are pending.
C6_Witness ==
    /\ lastCall.op \in RequestOps
    /\ lastCall.ret = FALSE
    /\ \E c \in Cars : ~NoPending(c)

\* C7: in every state an elevator can be in, requestFloor(f) twice in a row
\* leaves the elevator (its pending cabin requests among the rest) as one call
\* does, and returns the same value.
C7_RequestFloorIdempotent ==
    \A c \in Cars, f \in FloorInputs :
        LET once  == RequestFloor(elevators[c], f)
            twice == RequestFloor(once.elevator, f)
        IN  /\ twice.elevator.floorRequests = once.elevator.floorRequests
            /\ twice.elevator = once.elevator
            /\ twice.ret = once.ret

\* C7 witness: requestFloor has just queued a floor next to another, with the
\* doors not closed.
C7_Witness ==
    /\ lastCall.op = "requestFloor"
    /\ lastCall.ret
    /\ Includes(elevators[lastCall.car].floorRequests, lastCall.floor)
    /\ Len(elevators[lastCall.car].floorRequests) = 2
    /\ elevators[lastCall.car].doorState # CLOSED

\* C8: requestFloor(currentFloor) with the doors Closed returns true and
\* leaves the elevator as it was.
C8_CurrentFloorRequestIsNoOp ==
    [][\A c \in Cars :
          (/\ lastCall'.op = "requestFloor"
           /\ lastCall'.car = c
           /\ lastCall'.floor = elevators[c].currentFloor
           /\ elevators[c].doorState = CLOSED)
            => lastCall'.ret = TRUE /\ elevators' = elevators]_vars

\* The eligible floors of elevator e as section 4.2 of the design words them
C9_Eligible(e) ==
    Range(e.floorRequests) \cup
    { r.floor : r \in
        { r \in Range(e.hallRequests) :
            \/ e.direction = IDLE
            \/ r.direction = e.direction
            \/ r.floor = e.currentFloor
            \/ (e.direction = UP /\ r.floor > e.currentFloor)
            \/ (e.direction = DOWN /\ r.floor < e.currentFloor) } }

C9_EligibleAbove(e) == {f \in C9_Eligible(e) : f > e.currentFloor}

\* C9: whenever an elevator's direction is Up and some eligible floor lies
\* above currentFloor, _getNextDestination returns the least of those floors.
C9_NextStopIsNearestAbove ==
    \A c \in Cars :
        LET e == elevators[c]
        IN  (e.direction = UP /\ C9_EligibleAbove(e) # {}) =>
              /\ GetNextDestination(e) \in C9_EligibleAbove(e)
              /\ \A f \in C9_EligibleAbove(e) : GetNextDestination(e) <= f

\* C9 witness: an elevator going Up with two eligible floors above it.
C9_Witness ==
    \E c \in Cars :
        /\ elevators[c].direction = UP
        /\ Cardinality(C9_EligibleAbove(elevators[c])) >= 2

\* C10: an elevator that is moving has its doors Closed, and an elevator whose
\* doors are Opening, Open or Closing is not moving.
C10_MovingExcludesOpenDoors ==
    \A c \in Cars :
        /\ elevators[c].isMoving => elevators[c].doorState = CLOSED
        /\ elevators[c].doorState \in {OPENING, OPEN, CLOSING} => ~elevators[c].isMoving

\* C10 witness: one elevator is travelling while the other, arrived, has its
\* doors open.
C10_Witness ==
    \E c, d \in Cars :
        /\ elevators[c].isMoving
        /\ elevators[d].doorState = OPEN
        /\ elevators[d].currentFloor # 1

\* The requests queued on elevator c since its suspended runCycle call began
MidCycleCabin(c) == Range(elevators[c].floorRequests) \ Range(cycleStart[c].floorRequests)
MidCycleHall(c) == Range(elevators[c].hallRequests) \ Range(cycleStart[c].hallRequests)

\* C11: a request queued on an elevator while its cycle is in progress is not
\* retired by that cycle: the retirement step leaves it pending.
C11_MidCycleRequestsOutliveTheCycle ==
    [][\A c \in Cars :
          (pc[c] = "open" /\ pc'[c] = "closing") =>
             /\ MidCycleCabin(c) \subseteq Range(elevators'[c].floorRequests)
             /\ MidCycleHall(c) \subseteq Range(elevators'[c].hallRequests)]_vars

\* The eligible floors ahead of elevator e: above it going Up, below it going
\* Down, on either side when Idle
C12_EligibleAhead(e) ==
    {f \in C9_Eligible(e) :
        \/ (e.direction # DOWN /\ f > e.currentFloor)
        \/ (e.direction # UP /\ f < e.currentFloor)}

\* C12: _getNextDestination returns null exactly when no floor is eligible, and
\* with eligible floors but none ahead it returns the eligible floor nearest to
\* currentFloor, the lower one on a tie.
C12_NextStopNoneOrNearest ==
    \A c \in Cars :
        LET e    == elevators[c]
            dest == GetNextDestination(e)
        IN  /\ dest = NULL <=> C9_Eligible(e) = {}
            /\ (C9_Eligible(e) # {} /\ C12_EligibleAhead(e) = {}) =>
                  /\ dest \in C9_Eligible(e)
                  /\ \A f \in C9_Eligible(e) :
                        \/ Abs(dest - e.currentFloor) < Abs(f - e.currentFloor)
                        \/ (Abs(dest - e.currentFloor) = Abs(f - e.currentFloor) /\ dest <= f)

\* C13: a cycle that has a destination sets the direction from it (Up above
\* the current floor, Down below it, Idle on it) before requests are retired,
\* so a cycle whose destination is the floor the elevator stands on retires
\* every hall request at that floor.
C13_DirectionFollowsDestination ==
    [][\A c \in Cars :
          /\ (~InCycle(c) /\ pc'[c] \in {"moving", "opening"}) =>
                elevators'[c].direction =
                    IF destination'[c] > elevators[c].currentFloor THEN UP
                    ELSE IF destination'[c] < elevators[c].currentFloor THEN DOWN
                    ELSE IDLE
          /\ (pc[c] = "open" /\ pc'[c] = "closing"
                /\ destination[c] = cycleStart[c].currentFloor) =>
                \A r \in Range(elevators'[c].hallRequests) : r.floor # destination[c]]_vars

\* The door stages in their order
C14_DoorStages == {<<CLOSED, OPENING>>, <<OPENING, OPEN>>, <<OPEN, CLOSING>>, <<CLOSING, CLOSED>>}

\* C14: the door state changes only along Closed, Opening, Open, Closing,
\* Closed, one stage at a time, only within a cycle and with the elevator
\* arrived (isMoving false); where no cycle is running, the doors are Closed
\* and isMoving is false.
C14_DoorsFollowTheirStages ==
    [][\A c \in Cars :
          /\ elevators'[c].doorState # elevators[c].doorState =>
                /\ <<elevators[c].doorState, elevators'[c].doorState>> \in C14_DoorStages
                /\ InCycle(c) \/ pc'[c] \in {"moving", "opening", "open", "closing"}
                /\ ~elevators'[c].isMoving
          /\ ~InCycle(c) =>
                elevators[c].doorState = CLOSED /\ ~elevators[c].isMoving
          /\ pc'[c] \in {"idle", "done"} =>
                elevators'[c].doorState = CLOSED /\ ~elevators'[c].isMoving]_vars

\* C14 witness: an elevator that travelled has just closed its doors, ending
\* its cycle.
C14_Witness ==
    /\ lastCall.op = "_closeDoors"
    /\ ~InCycle(lastCall.car)
    /\ elevators[lastCall.car].doorState = CLOSED
    /\ elevators[lastCall.car].currentFloor # 1

\* C15: every elevator's currentFloor lies within [minFloor, maxFloor].
C15_CurrentFloorInRange ==
    \A c \in Cars :
        /\ elevators[c].currentFloor >= minFloor
        /\ elevators[c].currentFloor <= maxFloor

\* C16: each elevator's pending requests are well-formed: no cabin floor and no
\* hall (floor, direction) pair is queued twice, every pending floor is within
\* [minFloor, maxFloor], and no hall request is Up at maxFloor or Down at
\* minFloor.
C16_PendingSetsWellFormed ==
    \A c \in Cars :
        LET e == elevators[c]
        IN  /\ \A i, j \in 1..Len(e.floorRequests) :
                  e.floorRequests[i] = e.floorRequests[j] => i = j
            /\ \A i, j \in 1..Len(e.hallRequests) :
                  (/\ e.hallRequests[i].floor = e.hallRequests[j].floor
                   /\ e.hallRequests[i].direction = e.hallRequests[j].direction) => i = j
            /\ \A f \in Range(e.floorRequests) : f >= minFloor /\ f <= maxFloor
            /\ \A r \in Range(e.hallRequests) :
                  /\ r.floor >= minFloor /\ r.floor <= maxFloor
                  /\ ~(r.direction = UP /\ r.floor = maxFloor)
                  /\ ~(r.direction = DOWN /\ r.floor = minFloor)

\* C16 witness: an elevator holds a cabin request and a Down hall request at the
\* top floor.
C16_Witness ==
    \E c \in Cars :
        /\ Len(elevators[c].floorRequests) = 1
        /\ \E r \in Range(elevators[c].hallRequests) :
              r.floor = maxFloor /\ r.direction = DOWN

\* The floors of all pending requests of elevator e, cabin and hall
C17_PendingFloors(e) ==
    Range(e.floorRequests) \cup {r.floor : r \in Range(e.hallRequests)}

C18_EveryRequestEventuallyServed ==
    <>[](\A c \in Cars : NoPending(c))

\* The elevators of els on which the hall call (floor, direction) is pending
C19_Holders(els, floor, direction) ==
    {c \in Cars : FloorRequest(floor, direction) \in Range(els[c].hallRequests)}

\* C19: a hall call made through the controller while it is pending on one
\* elevator is not queued on a second one.
C19_ControllerCallPendingOnOneCar ==
    [][(reqCount' = reqCount + 1 /\ lastCall'.op = "controller.callElevator") =>
          LET before == C19_Holders(elevators, lastCall'.floor, lastCall'.direction)
              after  == C19_Holders(elevators', lastCall'.floor, lastCall'.direction)
          IN  Cardinality(before) = 1 => after = before]_vars

\* C20: requestFloor returns true without queueing the floor only when the
\* elevator stands at that floor with its doors Closed and is not moving.
C20_UnqueuedOnlyWhenStandingThere ==
    [][(/\ reqCount' = reqCount + 1
        /\ lastCall'.op = "requestFloor"
        /\ lastCall'.ret = TRUE
        /\ lastCall'.floor \notin Range(elevators'[lastCall'.car].floorRequests)) =>
          /\ elevators[lastCall'.car].currentFloor = lastCall'.floor
          /\ elevators[lastCall'.car].doorState = CLOSED
          /\ ~elevators[lastCall'.car].isMoving]_vars
====
